---- MODULE Spec2Model ----
(***************************************************************************)
(* The two tutorial notebooks as one state machine.                        *)
(*   2.1.Discretizing-Hamiltonians-computing-spectra.ipynb  (nb = "2.1")   *)
(*   3.4.graphene_qshe.ipynb                                (nb = "3.4")   *)
(* A state is the notebook's global bindings plus the position of the      *)
(* top-to-bottom execution (pc, the number of the next code cell).         *)
(* Energies are integers: notebook 2.1 in units of t.                      *)
(***************************************************************************)
EXTENDS Integers, Sequences, FiniteSets, TLC

VARIABLES nb, pc, r, sys, ham, eig, widgets, shown, raised, log, edits, env, frame

vars == <<nb, pc, r, sys, ham, eig, widgets, shown, raised, log, edits, env, frame>>

(* ------------------------------------------------------------------ *)
(* Numbers                                                            *)
(* ------------------------------------------------------------------ *)

\* a complex number with integer real and imaginary part
Cplx(re, im) == [re |-> re, im |-> im]

Real(x) == Cplx(x, 0)

conj(z) == [re |-> z.re, im |-> 0 - z.im]

(* ------------------------------------------------------------------ *)
(* Bounds                                                             *)
(* ------------------------------------------------------------------ *)

\* largest radius of the confined region that is explored
MaxR == 4

\* how many statements of the "Your turn!" exercise are applied to a Builder
MaxEdits == 1

(* ------------------------------------------------------------------ *)
(* Notebook 2.1: lattice, region, Builder                             *)
(* ------------------------------------------------------------------ *)

\* t = 1
t == 1

\* the radii r the region is built with
Radii == 1 .. MaxR

Add(p, d) == <<p[1] + d[1], p[2] + d[2]>>

Neg(d) == <<0 - d[1], 0 - d[2]>>

\* lat = kwant.lattice.square(a=1): the two primitive directions
prim_vecs == {<<1, 0>>, <<0, 1>>}

\* a lat.neighbors() that leaves out the y direction
neighbors_x_only == {<<1, 0>>}

\* lat.neighbors(): one hopping kind per pair of opposite nearest-neighbour
\* directions; a kind d connects site s to site s + d
neighbors == {<<1, 0>>, <<0, 1>>}

\* def circle(pos): x**2 + y**2 < r**2   (rr is the global r when it is called)
circle(pos, rr) == pos[1] * pos[1] + pos[2] * pos[2] < rr * rr

\* a flood fill that only walks along the x direction
RECURSIVE FloodAlongX(_, _, _)
FloodAlongX(front, seen, rr) ==
    IF front = {} THEN seen
    ELSE LET cand == {Add(p, d) : p \in front, d \in {<<1, 0>>, <<-1, 0>>}}
             nxt  == {q \in cand : circle(q, rr)} \ seen
         IN  FloodAlongX(nxt, seen \cup nxt, rr)

\* lat.shape(circle, start): the sites reached from start through lattice
\* neighbours that satisfy the predicate
RECURSIVE Flood(_, _, _)
Flood(front, seen, rr) ==
    IF front = {} THEN seen
    ELSE LET steps == prim_vecs \cup {Neg(d) : d \in prim_vecs}
             cand  == {Add(p, d) : p \in front, d \in steps}
             nxt   == {q \in cand : circle(q, rr)} \ seen
         IN  Flood(nxt, seen \cup nxt, rr)

shape(start, rr) == IF circle(start, rr) THEN Flood({start}, {start}, rr) ELSE {}

\* kwant.Builder()
Builder == [kind |-> "builder", sites |-> {}, onsiteV |-> <<>>, hop |-> <<>>]

\* sys[sites] = v
SetSites(b, S, v) ==
    [b EXCEPT !.sites = b.sites \cup S,
              !.onsiteV = [s \in b.sites \cup S |->
                              IF s \in S THEN v ELSE b.onsiteV[s]]]

\* the hoppings <<to, from>> a set of hopping kinds stands for in a system:
\* both ends must be sites of the system
HoppingsOf(b, kinds) ==
    {<<Add(s, d), s>> : s \in {x \in b.sites : \E k \in kinds : Add(x, k) \in b.sites},
                        d \in kinds}
      \cap (b.sites \X b.sites)

\* sys[hoppings] = v: a hopping is stored once, in the direction given last
SetHoppings(b, H, v) ==
    LET kept == {h \in DOMAIN b.hop : h \notin H /\ <<h[2], h[1]>> \notin H}
    IN  [b EXCEPT !.hop = [h \in kept \cup H |-> IF h \in H THEN v ELSE b.hop[h]]]

\* del sys[site]: the site goes, and every hopping that touches it
DelSite(b, s) ==
    [b EXCEPT !.sites = b.sites \ {s},
              !.onsiteV = [x \in b.sites \ {s} |-> b.onsiteV[x]],
              !.hop = [h \in {g \in DOMAIN b.hop : g[1] # s /\ g[2] # s} |-> b.hop[h]]]

\* sites in the order of their tags
Before(p, q) == p[1] < q[1] \/ (p[1] = q[1] /\ p[2] < q[2])

RECURSIVE Sorted(_)
Sorted(S) ==
    IF S = {} THEN <<>>
    ELSE LET m == CHOOSE x \in S : \A y \in S \ {x} : Before(x, y)
         IN  <<m>> \o Sorted(S \ {m})

\* sys.finalized(): the sites get a fixed order
finalized(b) ==
    [kind |-> "finalized", sites |-> b.sites, order |-> Sorted(b.sites),
     onsiteV |-> b.onsiteV, hop |-> b.hop]

\* <i|H|j> of a finite system for two of its sites
Element(f, a, b) ==
    IF a = b THEN f.onsiteV[a]
    ELSE IF <<a, b>> \in DOMAIN f.hop THEN f.hop[<<a, b>>]
    ELSE IF <<b, a>> \in DOMAIN f.hop THEN conj(f.hop[<<b, a>>])
    ELSE Real(0)

\* sys.hamiltonian_submatrix(): the dense matrix over the ordered sites
hamiltonian_submatrix(f) ==
    LET n == Len(f.order)
    IN  [ij \in (1 .. n) \X (1 .. n) |-> Element(f, f.order[ij[1]], f.order[ij[2]])]

(* ------------------------------------------------------------------ *)
(* Notebook 3.4: numbers and values                                   *)
(* Energies of notebook 3.4 are kept in hundredths (the sliders step  *)
(* by .01): the Python number 1 is Unit, t_2 = .03 is 3.              *)
(* ------------------------------------------------------------------ *)

Unit == 100

\* the product of two numbers kept in hundredths
Mul(x, y) ==
    Cplx((x.re * y.re - x.im * y.im) \div Unit, (x.re * y.im + x.im * y.re) \div Unit)

\* 1j
J == Cplx(0, Unit)

\* a value a Builder holds: a number, a 2x2 array or a function
Scalar(z) == [tag |-> "scalar", z |-> z]

Matrix(m) == [tag |-> "matrix", m |-> m]

Callable(fn) == [tag |-> "callable", fn |-> fn]

\* number * array, entry by entry
MScale(z, m) == [i \in 1 .. Len(m) |-> [j \in 1 .. Len(m) |-> Mul(z, m[i][j])]]

\* Pauli matrices: s0 = np.identity(2), sx, sy, sz = np.diag([1, -1])
s0 == <<<<Real(Unit), Real(0)>>, <<Real(0), Real(Unit)>>>>

sx == <<<<Real(0), Real(Unit)>>, <<Real(Unit), Real(0)>>>>

sy == <<<<Real(0), Cplx(0, 0 - Unit)>>, <<Cplx(0, Unit), Real(0)>>>>

sz == <<<<Real(Unit), Real(0)>>, <<Real(0), Real(0 - Unit)>>>>

\* (1 if site.family == a else -1); a, b = graphene.sublattices
FamilySign(site) == IF site.fam = "a" THEN Real(Unit) ELSE Real(0 - Unit)

\* Haldane: def nnn_hopping(site1, site2, params): return 1j * params.t_2
nnn_hopping(site1, site2, params) == Scalar(Mul(J, Real(params.t_2)))

\* an onsite that carries the 1j of nnn_hopping
onsite_haldane_imag(site, params) ==
    Scalar(Mul(J, Mul(Real(params.m), FamilySign(site))))

\* Haldane: def onsite(site, params): return params.m * (1 if site.family == a else -1)
onsite_haldane(site, params) == Scalar(Mul(Real(params.m), FamilySign(site)))

\* a spin_orbit with s0 in the place of sz
spin_orbit_s0(site1, site2, params) == Matrix(MScale(Mul(J, Real(params.t_2)), s0))

\* Kane-Mele: def spin_orbit(site1, site2, params): return 1j * params.t_2 * sz
spin_orbit(site1, site2, params) == Matrix(MScale(Mul(J, Real(params.t_2)), sz))

\* an onsite with sz in the place of s0
onsite_kane_mele_sz(site, params) ==
    Matrix(MScale(FamilySign(site), MScale(Real(params.m), sz)))

\* Kane-Mele: def onsite(site, params): return s0 * params.m * (1 if ... else -1)
onsite_kane_mele(site, params) ==
    Matrix(MScale(FamilySign(site), MScale(Real(params.m), s0)))

\* the value a Builder entry has for given sites and args: a function is called
\* with the sites and the args, anything else is the value itself
OnsiteValue(v, site, args) ==
    IF v.tag # "callable" THEN v
    ELSE IF v.fn = "onsite_haldane" THEN onsite_haldane(site, args[1])
    ELSE onsite_kane_mele(site, args[1])

HoppingValue(v, site1, site2, args) ==
    IF v.tag # "callable" THEN v
    ELSE IF v.fn = "nnn_hopping" THEN nnn_hopping(site1, site2, args[1])
    ELSE spin_orbit(site1, site2, args[1])

\* a value as a square array over the orbitals of a site
AsMat(v) == IF v.tag = "scalar" THEN <<<<v.z>>>> ELSE v.m

(* ------------------------------------------------------------------ *)
(* Notebook 3.4: the honeycomb lattice                                *)
(* ------------------------------------------------------------------ *)

\* graphene = kwant.lattice.general([[1, 0], [1/2, sqrt(3)/2]],
\*                                  [[0, 0], [0, 1/sqrt(3)]])
\* a site is a sublattice (family) and an integer tag (n1, n2); its position
\* is n1*(1, 0) + n2*(1/2, sqrt(3)/2) + basis
Site(fam, tag) == [fam |-> fam, tag |-> tag]

sublattices == <<"a", "b">>

\* 2*sqrt(3) times the y coordinate of a site
Y6(site) == 3 * site.tag[2] + (IF site.fam = "a" THEN 0 ELSE 2)

\* 3 times the squared distance between a(0, 0) and b(d1, d2)
Dist3(d) == 3 * (d[1] * d[1] + d[1] * d[2] + d[2] * d[2] + d[2]) + 1

\* a hopping kind: from the site fb(tag) to the site fa(tag + delta)
HoppingKind(delta, fa, fb) == [delta |-> delta, fa |-> fa, fb |-> fb]

Window == (-1 .. 1) \X (-1 .. 1)

\* graphene.neighbors(1): the kinds that join a site to its nearest neighbours,
\* which are the b sites closest to an a site
graphene_neighbors ==
    LET least == CHOOSE x \in {Dist3(d) : d \in Window} :
                     \A y \in {Dist3(d) : d \in Window} : x <= y
    IN  {HoppingKind(Neg(d), "a", "b") : d \in {e \in Window : Dist3(e) = least}}

\* nnn_hoppings_a + nnn_hoppings_b
nnn_hoppings ==
    {HoppingKind(<<-1, 0>>, "a", "a"), HoppingKind(<<0, 1>>, "a", "a"),
     HoppingKind(<<1, -1>>, "a", "a"),
     HoppingKind(<<1, 0>>, "b", "b"), HoppingKind(<<0, -1>>, "b", "b"),
     HoppingKind(<<-1, 1>>, "b", "b")}

\* kwant.TranslationalSymmetry(*graphene.prim_vecs) is "2D",
\* kwant.TranslationalSymmetry([1, 0]) is "1D": the translation that brings a
\* site into the fundamental domain
Shift(sym, tag) == IF sym = "2D" THEN tag ELSE <<tag[1], 0>>

ToFD(sym, site) == Site(site.fam, Add(site.tag, Neg(Shift(sym, site.tag))))

\* a hopping <<to, from>> moved so that its first site is in the fundamental domain
HopToFD(sym, h) ==
    <<ToFD(sym, h[1]), Site(h[2].fam, Add(h[2].tag, Neg(Shift(sym, h[1].tag))))>>

\* kwant.Builder(symmetry)
SymBuilder(sym) ==
    [kind |-> "builder", sym |-> sym, sites |-> {}, onsiteV |-> <<>>, hop |-> <<>>]

\* width of the ribbons: abs(pos[1]) < 9
W == 9

\* lambda pos: True
everywhere(site) == TRUE

\* lambda pos: abs(pos[1]) < 9
ribbon(site) == Y6(site) * Y6(site) < 12 * W * W

\* the sites of the fundamental domain near the origin
FDSites(sym) ==
    {Site(f, <<0, n>>) : f \in {"a", "b"},
                         n \in IF sym = "2D" THEN {0} ELSE (0 - 2 * W) .. (2 * W)}

\* graphene.shape(fn, (0, 0)) in a Builder with a symmetry: the sites of the
\* fundamental domain that satisfy fn
SymShape(sym, fn(_)) == {s \in FDSites(sym) : fn(s)}

\* syst[sites] = v in a Builder with a symmetry
SymSetSites(b, S, v) ==
    [b EXCEPT !.sites = b.sites \cup S,
              !.onsiteV = [s \in b.sites \cup S |->
                              IF s \in S THEN v ELSE b.onsiteV[s]]]

\* the hoppings a set of kinds stands for in a Builder with a symmetry: one per
\* kind and site of the kind's source family whose target is in the system too,
\* moved so that the target is in the fundamental domain
SymHoppingsOf(b, kinds) ==
    {HopToFD(b.sym, <<Site(ks[1].fa, Add(ks[2].tag, ks[1].delta)), ks[2]>>) :
        ks \in {x \in kinds \X b.sites :
                   /\ x[2].fam = x[1].fb
                   /\ ToFD(b.sym, Site(x[1].fa, Add(x[2].tag, x[1].delta))) \in b.sites}}

\* syst[hoppings] = v: a hopping is stored once, in the direction given last
SymSetHoppings(b, H, v) ==
    LET kept == {h \in DOMAIN b.hop :
                    h \notin H /\ HopToFD(b.sym, <<h[2], h[1]>>) \notin H}
    IN  [b EXCEPT !.hop = [h \in kept \cup H |-> IF h \in H THEN v ELSE b.hop[h]]]

\* wraparound(syst).finalized() of a Builder with the 2D symmetry: a finite
\* system of the sites of one unit cell, whose values take the two lattice
\* momenta as last args
wraparound_finalized(b) ==
    [kind |-> "finalized", wrapped |-> TRUE, sym |-> b.sym, sites |-> b.sites,
     order |-> <<Site("a", <<0, 0>>), Site("b", <<0, 0>>)>>,
     onsiteV |-> b.onsiteV, hop |-> b.hop]

\* a ribbon handed on as the Builder it is, without .finalized()
ribbon_not_finalized(b) == b

\* syst.finalized() of a ribbon: an infinite system with one unit cell of sites
ribbon_finalized(b) ==
    [kind |-> "finalized", wrapped |-> FALSE, sym |-> b.sym, sites |-> b.sites,
     onsiteV |-> b.onsiteV, hop |-> b.hop]

\* the rows of a wrapped system's matrix: a site (by its place in the order)
\* and one of its orbitals
Orbitals(f, args) ==
    {<<i, o>> : i \in 1 .. Len(f.order),
                o \in 1 .. Len(AsMat(OnsiteValue(f.onsiteV[f.order[1]], f.order[1], args)))}

\* The matrix of a wrapped system as a function of the lattice momentum
\* (k1, k2): BlochCoefficient(f, args, x, y, d) is the coefficient of
\* exp(i*(k1*d[1] + k2*d[2])) in the element <x|H(k)|y>. A hopping stored as
\* <<to, from>> gives its value to <to|H|from> and the conjugate transpose to
\* <from|H|to>.
BlochCoefficient(f, args, x, y, d) ==
    LET sa == f.order[x[1]]
        sb == f.order[y[1]]
        h1 == <<sa, Site(sb.fam, d)>>
        h2 == <<sb, Site(sa.fam, Neg(d))>>
    IN  IF sa = sb /\ d = <<0, 0>>
        THEN AsMat(OnsiteValue(f.onsiteV[sa], sa, args))[x[2]][y[2]]
        ELSE IF h1 \in DOMAIN f.hop
        THEN AsMat(HoppingValue(f.hop[h1], h1[1], h1[2], args))[x[2]][y[2]]
        ELSE IF h2 \in DOMAIN f.hop
        THEN conj(AsMat(HoppingValue(f.hop[h2], h2[1], h2[2], args))[y[2]][x[2]])
        ELSE Real(0)

\* syst.hamiltonian_submatrix(args=params + [k1, k2]) of a wrapped system: the
\* matrix at the momentum given by the last two args, kept as its coefficients
bloch_submatrix(f, args) ==
    LET params == SubSeq(args, 1, Len(args) - 2)
        orbs   == Orbitals(f, params)
    IN  [k |-> <<args[Len(args) - 1], args[Len(args)]>>,
         args |-> params,
         coef |-> [xy \in orbs \X orbs |->
                     [d \in Window |-> BlochCoefficient(f, params, xy[1], xy[2], d)]]]

(* ------------------------------------------------------------------ *)
(* Notebook 2.1: the cells                                            *)
(* ------------------------------------------------------------------ *)

Unbound == [kind |-> "unbound"]

\* one library call on a system: which call, on what kind of object, and
\* whether a Hamiltonian matrix had been extracted when it was made
Call(op, kind, hamBound) == [op |-> op, nb |-> nb, on |-> kind, hamBound |-> hamBound]

Event(op, s) == Call(op, s.kind, ham.bound)

NoEnv ==
    [bulk_graphene |-> Unbound, zigzag_ribbon |-> Unbound, haldane |-> Unbound,
     bulk_kane_mele |-> Unbound, zigzag_kane_mele |-> Unbound,
     onsite |-> "unbound", add_hoppings |-> "unbound"]

Idle == [active |-> FALSE]

Init ==
    /\ nb \in {"2.1", "3.4"}
    /\ pc = 1
    /\ r = 0
    /\ sys = Unbound
    /\ ham = [bound |-> FALSE]
    /\ eig = [bound |-> FALSE]
    /\ widgets = {}
    /\ shown = [fn |-> "none"]
    /\ raised = "none"
    /\ log = {}
    /\ edits = 0
    /\ env = NoEnv
    /\ frame = Idle

\* import kwant / %run matplotlib_setup.ipy, import scipy.linalg / lat = ...
Imports21 ==
    /\ nb = "2.1" /\ pc \in 1 .. 3
    /\ pc' = pc + 1
    /\ UNCHANGED <<nb, r, sys, ham, eig, widgets, shown, raised, log, edits, env, frame>>

\* t = 1; r = ...; def circle; sys = kwant.Builder(); sys[shape] = 4t; sys[neighbors] = -t
BuildCell ==
    /\ nb = "2.1" /\ pc = 4
    /\ \E rr \in Radii :
         LET b0 == SetSites(Builder, shape(<<0, 0>>, rr), Real(4 * t))
             b1 == SetHoppings(b0, HoppingsOf(b0, neighbors), Real(0 - t))
         IN  /\ r' = rr
             /\ sys' = b1
             /\ log' = log \cup {Event("construct", b1)}
    /\ pc' = 5
    /\ UNCHANGED <<nb, ham, eig, widgets, shown, raised, edits, env, frame>>

\* kwant.plot(sys)
PlotCell ==
    /\ nb = "2.1" /\ pc = 5
    /\ log' = log \cup {Event("plot", sys)}
    /\ pc' = 6
    /\ UNCHANGED <<nb, r, sys, ham, eig, widgets, shown, raised, edits, env, frame>>

\* sys = sys.finalized()
FinalizeCell ==
    /\ nb = "2.1" /\ pc = 6
    /\ sys' = finalized(sys)
    /\ log' = log \cup {Event("finalize", sys)}
    /\ pc' = 7
    /\ UNCHANGED <<nb, r, ham, eig, widgets, shown, raised, edits, env, frame>>

\* ham = sys.hamiltonian_submatrix(); plt.matshow(ham == 0)
HamCell ==
    /\ nb = "2.1" /\ pc = 7
    /\ ham' = [bound |-> TRUE, m |-> hamiltonian_submatrix(sys)]
    /\ log' = log \cup {Event("hamiltonian_submatrix", sys)}
    /\ pc' = 8
    /\ UNCHANGED <<nb, r, sys, eig, widgets, shown, raised, edits, env, frame>>

\* eval, evec = la.eigh(ham); kwant.plotter.map(sys, abs(evec[:,0])**2)
\* la.eigh returns as many eigenpairs as ham has rows, eigenvalues ascending:
\* eval[i] is the (i+1)-th lowest, so an eigenpair is known by its index
eigh(h) == [bound |-> TRUE, n |-> Cardinality({ij[1] : ij \in DOMAIN h})]

EigCell ==
    /\ nb = "2.1" /\ pc = 8
    /\ eig' = eigh(ham.m)
    /\ shown' = [fn |-> "map", i |-> 0]
    /\ log' = log \cup {Event("eigh", sys), Event("map", sys)}
    /\ pc' = 9
    /\ UNCHANGED <<nb, r, sys, ham, widgets, raised, edits, env, frame>>

\* the values a slider made from the abbreviation (lo, hi) or (lo, hi, step)
\* can take: lo, lo + step, ... up to and including hi
SliderValues(lo, hi, step) == {lo + k * step : k \in 0 .. ((hi - lo) \div step)}

\* def plot_wf(i=0): print eval[i]; kwant.plotter.map(sys, abs(evec[:, i])**2)
plot_wf(i) ==
    IF i < eig.n
    THEN /\ shown' = [fn |-> "plot_wf", i |-> i]
         /\ raised' = "none"
         /\ log' = log \cup {Event("map", sys)}
    ELSE /\ raised' = "IndexError"
         /\ UNCHANGED <<shown, log>>

\* interact(plot_wf, i=(0, 30)): builds the slider, shows it and calls
\* plot_wf once with the slider's initial value, the default i=0
InteractCell ==
    /\ nb = "2.1" /\ pc = 9
    /\ widgets' = widgets \cup {[fn |-> "plot_wf", values |-> SliderValues(0, 30, 1)]}
    /\ plot_wf(0)
    /\ pc' = 10
    /\ UNCHANGED <<nb, r, sys, ham, eig, edits, env, frame>>

\* the user moves the slider: the kernel runs plot_wf with the new value
SliderMoved21 ==
    /\ nb = "2.1"
    /\ \E w \in widgets : \E i \in w.values :
         /\ w.fn = "plot_wf"
         /\ plot_wf(i)
    /\ UNCHANGED <<nb, pc, r, sys, ham, eig, widgets, edits, env, frame>>

(* ------------------------------------------------------------------ *)
(* Notebook 2.1: "Your turn!"                                         *)
(* ------------------------------------------------------------------ *)

\* the sites (i, j) the exercise's statements are tried on
ExerciseSites == {<<0, 0>>, <<MaxR, 0>>}

\* an item assignment that every object takes
SetItemAnywhere(obj, s, v) == [obj |-> SetSites(obj, {s}, v), exc |-> "none"]

\* obj[site] = v: a Builder takes it, a finalized system has no item assignment
SetItem(obj, s, v) ==
    IF obj.kind = "builder"
    THEN [obj |-> SetSites(obj, {s}, v), exc |-> "none"]
    ELSE [obj |-> obj, exc |-> "TypeError"]

\* del obj[site]: a Builder drops the site, a finalized system has no item deletion
DelItem(obj, s) ==
    IF obj.kind = "builder"
    THEN IF s \in obj.sites
         THEN [obj |-> DelSite(obj, s), exc |-> "none"]
         ELSE [obj |-> obj, exc |-> "KeyError"]
    ELSE [obj |-> obj, exc |-> "TypeError"]

\* sys[lat(i, j)] = 8 * t, run in a cell of its own once sys is bound
ExerciseSetItem ==
    /\ nb = "2.1" /\ pc > 4
    /\ sys.kind = "builder" => edits < MaxEdits
    /\ \E s \in ExerciseSites :
         LET res == SetItem(sys, s, Real(8 * t))
         IN  /\ sys' = res.obj
             /\ raised' = res.exc
    /\ edits' = IF sys.kind = "builder" THEN edits + 1 ELSE edits
    /\ UNCHANGED <<nb, pc, r, ham, eig, widgets, shown, log, env, frame>>

\* del sys[lat(i, j)], run in a cell of its own once sys is bound
ExerciseDel ==
    /\ nb = "2.1" /\ pc > 4
    /\ sys.kind = "builder" => edits < MaxEdits
    /\ \E s \in ExerciseSites :
         LET res == DelItem(sys, s)
         IN  /\ sys' = res.obj
             /\ raised' = res.exc
    /\ edits' = IF sys.kind = "builder" THEN edits + 1 ELSE edits
    /\ UNCHANGED <<nb, pc, r, ham, eig, widgets, shown, log, env, frame>>

(* ------------------------------------------------------------------ *)
(* Notebook 3.4: dispersion_2D                                        *)
(* ------------------------------------------------------------------ *)

\* the grid size num_points the band structures are computed with
NumPoints == 3

\* np.linspace(-lim, lim, n) in units of lim/(n - 1): n evenly spaced momenta
\* from -lim to lim (a Python index i is i + 1 here)
linspace(n) == [i \in 1 .. n |-> 2 * (i - 1) - (n - 1)]

\* momentum_to_lattice(k): with B the matrix whose columns are the primitive
\* vectors, A = B (B^T B)^-1 and the result solves A x = k, which is
\* x = B^T k = (k.(1, 0), k.(1/2, sqrt(3)/2)). A component is kept as the
\* pair (one, sqrt3) that stands for (one + sqrt3 * sqrt(3)) / 2.
momentum_to_lattice(k) ==
    <<[one |-> 2 * k[1], sqrt3 |-> 0], [one |-> k[1], sqrt3 |-> k[2]]>>

\* args += list(lattice_k): the list named args grows in place
CallArgsInPlace(args, lattice_k) == [call |-> args \o lattice_k, obj |-> args \o lattice_k]

\* args=(list(args) + list(lattice_k)): the list handed to
\* hamiltonian_submatrix (call) and what the list named args holds after the
\* statement (obj)
CallArgs(args, lattice_k) == [call |-> args \o lattice_k, obj |-> args]

\* np.linalg.eigvalsh(h): one eigenvalue per row of h, ascending; an
\* eigenvalue is known by its band and the matrix it belongs to
eigvalsh(h) ==
    [b \in 1 .. Cardinality({xy[1] : xy \in DOMAIN h.coef}) |->
        [band |-> b, k |-> h.k, args |-> h.args]]

\* np.array(energies).reshape(n, n, -1): row-major
reshape(flat, n) == [i \in 1 .. n |-> [j \in 1 .. n |-> flat[(i - 1) * n + j]]]

\* np.meshgrid(xs, ys) with the default indexing 'xy': X[i][j] = xs[j],
\* Y[i][j] = ys[i]
meshgrid(xs, ys) ==
    [X |-> [i \in 1 .. Len(ys) |-> [j \in 1 .. Len(xs) |-> xs[j]]],
     Y |-> [i \in 1 .. Len(ys) |-> [j \in 1 .. Len(xs) |-> ys[i]]]]

None == [none |-> TRUE]

List(l) == [none |-> FALSE, list |-> l]

\* dispersion_2D(syst, args, num_points=n) up to the loops: if args is None:
\* args = []; momenta = np.linspace(...); energies = []
\* passed is the caller's argument, passed0 what it held when the call began;
\* at, call and h are the momentum, the args and the matrix of the latest pass
Enter(syst, passed, n, by) ==
    [active |-> TRUE, by |-> by, syst |-> syst, passed |-> passed, passed0 |-> passed,
     args |-> IF passed.none THEN <<>> ELSE passed.list,
     n |-> n, momenta |-> linspace(n), i |-> 1, j |-> 1, energies |-> <<>>,
     at |-> <<>>, call |-> <<>>, calls |-> 0, h |-> <<>>]

\* one pass of the inner loop, for kx = momenta[i] and ky = momenta[j]
DispStep ==
    /\ frame.active /\ frame.i <= frame.n
    /\ LET kx == frame.momenta[frame.i]
           ky == frame.momenta[frame.j]
           lattice_k == momentum_to_lattice(<<kx, ky>>)
           a == CallArgs(frame.args, lattice_k)
           h == bloch_submatrix(frame.syst, a.call)
       IN  /\ frame' = [frame EXCEPT
                 !.args = a.obj,
                 !.passed = IF frame.passed.none THEN None ELSE List(a.obj),
                 !.at = <<kx, ky>>,
                 !.call = a.call,
                 !.calls = frame.calls + 1,
                 !.h = h,
                 !.energies = Append(frame.energies, eigvalsh(h)),
                 !.j = IF frame.j = frame.n THEN 1 ELSE frame.j + 1,
                 !.i = IF frame.j = frame.n THEN frame.i + 1 ELSE frame.i]
           /\ log' = log \cup {Call("hamiltonian_submatrix", frame.syst.kind, FALSE),
                               Call("eigvalsh", frame.syst.kind, TRUE)}
    /\ UNCHANGED <<nb, pc, r, sys, ham, eig, widgets, shown, raised, edits, env>>

\* after the loops: reshape, meshgrid, one plot_surface per band
DispPlot ==
    /\ frame.active /\ frame.i > frame.n
    /\ LET energies == reshape(frame.energies, frame.n)
           grid == meshgrid(frame.momenta, frame.momenta)
       IN  shown' = [fn |-> "dispersion_2D", kx |-> grid.X, ky |-> grid.Y,
                     energies |-> energies]
    /\ log' = log \cup {Call("plot_surface", frame.syst.kind, TRUE)}
    /\ frame' = Idle
    /\ pc' = IF frame.by = "cell" THEN pc + 1 ELSE pc
    /\ UNCHANGED <<nb, r, sys, ham, eig, widgets, raised, edits, env>>

(* ------------------------------------------------------------------ *)
(* Notebook 3.4: the cells                                            *)
(* ------------------------------------------------------------------ *)

\* imports, def momentum_to_lattice, def dispersion_2D / graphene = ...; a, b = ...
Defs34 ==
    /\ nb = "3.4" /\ pc \in 1 .. 2 /\ ~frame.active
    /\ pc' = pc + 1
    /\ UNCHANGED <<nb, r, sys, ham, eig, widgets, shown, raised, log, edits, env, frame>>

\* bulk_graphene = kwant.Builder(...); ... = 0; ... = 1
\* dispersion_2D(wraparound(bulk_graphene).finalized())
BulkGrapheneCell ==
    /\ nb = "3.4" /\ pc = 3 /\ ~frame.active
    /\ LET b0 == SymSetSites(SymBuilder("2D"), SymShape("2D", everywhere), Scalar(Real(0)))
           b1 == SymSetHoppings(b0, SymHoppingsOf(b0, graphene_neighbors), Scalar(Real(Unit)))
           f  == wraparound_finalized(b1)
       IN  /\ env' = [env EXCEPT !.bulk_graphene = b1]
           /\ frame' = Enter(f, None, NumPoints, "cell")
           /\ log' = log \cup {Call("construct", b1.kind, FALSE), Call("finalize", b1.kind, FALSE),
                               Call("dispersion_2D", f.kind, FALSE)}
    /\ shown' = [fn |-> "none"]
    /\ UNCHANGED <<nb, pc, r, sys, ham, eig, widgets, raised, edits>>

\* kwant.plotter.bands(syst, args): the library extracts the Hamiltonian of the
\* unit cell, solves it and plots the bands
bands(f, args) == [fn |-> "bands", sites |-> Cardinality(f.sites), args |-> args]

\* zigzag_ribbon = kwant.Builder(...); ... = 0; ... = 1
\* kwant.plotter.bands(zigzag_ribbon.finalized())
ZigzagCell ==
    /\ nb = "3.4" /\ pc = 4 /\ ~frame.active
    /\ LET b0 == SymSetSites(SymBuilder("1D"), SymShape("1D", ribbon), Scalar(Real(0)))
           b1 == SymSetHoppings(b0, SymHoppingsOf(b0, graphene_neighbors), Scalar(Real(Unit)))
           f  == ribbon_finalized(b1)
       IN  /\ env' = [env EXCEPT !.zigzag_ribbon = b1]
           /\ shown' = bands(f, <<>>)
           /\ log' = log \cup {Call("construct", b1.kind, FALSE), Call("finalize", b1.kind, FALSE),
                               Call("bands", f.kind, FALSE)}
    /\ pc' = 5
    /\ UNCHANGED <<nb, r, sys, ham, eig, widgets, raised, edits, frame>>

\* nnn_hoppings_a = ...; nnn_hoppings_b = ...; nnn_hoppings = ...
NnnCell ==
    /\ nb = "3.4" /\ pc = 5 /\ ~frame.active
    /\ pc' = 6
    /\ UNCHANGED <<nb, r, sys, ham, eig, widgets, shown, raised, log, edits, env, frame>>

\* a slider for a float argument that only has a default v (in hundredths):
\* from -v to 3*v in steps of 0.1
DefaultSlider(v) == SliderValues(0 - v, 3 * v, Unit \div 10)

\* SimpleNamespace(t_2=t_2, m=m)
SimpleNamespace(t_2, m) == [t_2 |-> t_2, m |-> m]

\* Haldane: def nnn_hopping, def onsite, def add_hoppings, haldane = ...
\* @interact(t_2=(0, .08, .01)) def qshe_dispersion(t_2=0, m=.2): interact
\* builds the sliders and calls the function once with the defaults
HaldaneCell ==
    /\ nb = "3.4" /\ pc = 6 /\ ~frame.active
    /\ LET b0 == SymSetSites(SymBuilder("2D"), SymShape("2D", everywhere),
                             Callable("onsite_haldane"))
           b1 == SymSetHoppings(b0, SymHoppingsOf(b0, graphene_neighbors), Scalar(Real(Unit)))
           b2 == SymSetHoppings(b1, SymHoppingsOf(b1, nnn_hoppings), Callable("nnn_hopping"))
           f  == wraparound_finalized(b2)
       IN  /\ env' = [env EXCEPT !.haldane = b2, !.onsite = "onsite_haldane",
                                 !.add_hoppings = "add_hoppings_haldane"]
           /\ frame' = Enter(f, List(<<SimpleNamespace(0, 20)>>), NumPoints, "cell")
           /\ log' = log \cup {Call("construct", b2.kind, FALSE), Call("finalize", b2.kind, FALSE),
                               Call("dispersion_2D", f.kind, FALSE)}
    /\ widgets' = widgets \cup {[fn |-> "qshe_dispersion_haldane",
                                 t_2 |-> SliderValues(0, 8, 1), m |-> DefaultSlider(20)]}
    /\ shown' = [fn |-> "none"]
    /\ UNCHANGED <<nb, pc, r, sys, ham, eig, raised, edits>>

\* s0 = ...; sx = ...; sy = ...; sz = ...
PauliCell ==
    /\ nb = "3.4" /\ pc = 7 /\ ~frame.active
    /\ pc' = 8
    /\ UNCHANGED <<nb, r, sys, ham, eig, widgets, shown, raised, log, edits, env, frame>>

\* Kane-Mele: def spin_orbit, def onsite, def add_hoppings: the names onsite
\* and add_hoppings are bound anew
KaneMeleDefsCell ==
    /\ nb = "3.4" /\ pc = 8 /\ ~frame.active
    /\ env' = [env EXCEPT !.onsite = "onsite_kane_mele",
                          !.add_hoppings = "add_hoppings_kane_mele"]
    /\ pc' = 9
    /\ UNCHANGED <<nb, r, sys, ham, eig, widgets, shown, raised, log, edits, frame>>

\* Haldane: def add_hoppings(syst): syst[graphene.neighbors(1)] = 1; syst[nnn] = nnn_hopping
add_hoppings_haldane(syst) ==
    LET b1 == SymSetHoppings(syst, SymHoppingsOf(syst, graphene_neighbors), Scalar(Real(Unit)))
    IN  SymSetHoppings(b1, SymHoppingsOf(b1, nnn_hoppings), Callable("nnn_hopping"))

\* Kane-Mele: def add_hoppings(syst): syst[graphene.neighbors(1)] = s0; syst[nnn] = spin_orbit
add_hoppings_kane_mele(syst) ==
    LET b1 == SymSetHoppings(syst, SymHoppingsOf(syst, graphene_neighbors), Matrix(s0))
    IN  SymSetHoppings(b1, SymHoppingsOf(b1, nnn_hoppings), Callable("spin_orbit"))

\* add_hoppings(syst), by the function the name is bound to when it is called
add_hoppings(syst) ==
    IF env.add_hoppings = "add_hoppings_haldane"
    THEN add_hoppings_haldane(syst) ELSE add_hoppings_kane_mele(syst)

\* bulk_kane_mele = ...; ... = onsite; add_hoppings(bulk_kane_mele)
\* @interact(t_2=(0, .3, .01)) def qshe_dispersion(t_2=0, m=.2)
BulkKaneMeleCell ==
    /\ nb = "3.4" /\ pc = 9 /\ ~frame.active
    /\ LET b0 == SymSetSites(SymBuilder("2D"), SymShape("2D", everywhere), Callable(env.onsite))
           b1 == add_hoppings(b0)
           f  == wraparound_finalized(b1)
       IN  /\ env' = [env EXCEPT !.bulk_kane_mele = b1]
           /\ frame' = Enter(f, List(<<SimpleNamespace(0, 20)>>), NumPoints, "cell")
           /\ log' = log \cup {Call("construct", b1.kind, FALSE), Call("finalize", b1.kind, FALSE),
                               Call("dispersion_2D", f.kind, FALSE)}
    /\ widgets' = widgets \cup {[fn |-> "qshe_dispersion_kane_mele",
                                 t_2 |-> SliderValues(0, 30, 1), m |-> DefaultSlider(20)]}
    /\ shown' = [fn |-> "none"]
    /\ UNCHANGED <<nb, pc, r, sys, ham, eig, raised, edits>>

\* zigzag_kane_mele = ...; ... = onsite; add_hoppings(zigzag_kane_mele)
\* @interact(t_2=(0, .12, .01)) def qshe_zigzag_dispersion(t_2=0, m=.2):
\*     kwant.plotter.bands(zigzag_kane_mele.finalized(), [SimpleNamespace(...)])
ZigzagKaneMeleCell ==
    /\ nb = "3.4" /\ pc = 10 /\ ~frame.active
    /\ LET b0 == SymSetSites(SymBuilder("1D"), SymShape("1D", ribbon), Callable(env.onsite))
           b1 == add_hoppings(b0)
           f  == ribbon_finalized(b1)
       IN  /\ env' = [env EXCEPT !.zigzag_kane_mele = b1]
           /\ shown' = bands(f, <<SimpleNamespace(0, 20)>>)
           /\ log' = log \cup {Call("construct", b1.kind, FALSE), Call("finalize", b1.kind, FALSE),
                               Call("bands", f.kind, FALSE)}
    /\ widgets' = widgets \cup {[fn |-> "qshe_zigzag_dispersion",
                                 t_2 |-> SliderValues(0, 12, 1), m |-> DefaultSlider(20)]}
    /\ pc' = 11
    /\ UNCHANGED <<nb, r, sys, ham, eig, raised, edits, frame>>

\* the user moves a slider of one of the two qshe_dispersion widgets: the
\* kernel clears the widget's output and runs the function with the new values
DispersionSliderMoved ==
    /\ nb = "3.4" /\ ~frame.active
    /\ \E w \in widgets : \E t2 \in w.t_2 : \E mm \in w.m :
         /\ w.fn \in {"qshe_dispersion_haldane", "qshe_dispersion_kane_mele"}
         /\ LET b == IF w.fn = "qshe_dispersion_haldane" THEN env.haldane
                     ELSE env.bulk_kane_mele
                f == wraparound_finalized(b)
            IN  /\ frame' = Enter(f, List(<<SimpleNamespace(t2, mm)>>), NumPoints, "widget")
                /\ log' = log \cup {Call("finalize", b.kind, FALSE),
                                    Call("dispersion_2D", f.kind, FALSE)}
    /\ shown' = [fn |-> "none"]
    /\ UNCHANGED <<nb, pc, r, sys, ham, eig, widgets, raised, edits, env>>

\* the user moves a slider of the qshe_zigzag_dispersion widget
ZigzagSliderMoved ==
    /\ nb = "3.4" /\ ~frame.active
    /\ \E w \in widgets : \E t2 \in w.t_2 : \E mm \in w.m :
         /\ w.fn = "qshe_zigzag_dispersion"
         /\ LET f == ribbon_finalized(env.zigzag_kane_mele)
            IN  /\ shown' = bands(f, <<SimpleNamespace(t2, mm)>>)
                /\ log' = log \cup {Call("finalize", env.zigzag_kane_mele.kind, FALSE),
                                    Call("bands", f.kind, FALSE)}
    /\ UNCHANGED <<nb, pc, r, sys, ham, eig, widgets, raised, edits, env, frame>>

Next34 ==
    \/ Defs34 \/ BulkGrapheneCell \/ ZigzagCell \/ NnnCell \/ HaldaneCell \/ PauliCell
    \/ KaneMeleDefsCell \/ BulkKaneMeleCell \/ ZigzagKaneMeleCell
    \/ DispStep \/ DispPlot \/ DispersionSliderMoved \/ ZigzagSliderMoved

Next21 ==
    \/ Imports21 \/ BuildCell \/ PlotCell \/ FinalizeCell \/ HamCell \/ EigCell
    \/ InteractCell \/ SliderMoved21
    \/ ExerciseSetItem \/ ExerciseDel

Next == Next21 \/ Next34

Spec == Init /\ [][Next]_vars

(* ------------------------------------------------------------------ *)
(* Properties                                                         *)
(* ------------------------------------------------------------------ *)

\* two sites of the square lattice one lattice constant apart
NearestNeighbours(p, q) ==
    \/ (p[1] = q[1] /\ (p[2] - q[2] = 1 \/ q[2] - p[2] = 1))
    \/ (p[2] = q[2] /\ (p[1] - q[1] = 1 \/ q[1] - p[1] = 1))

\* the real part of the sum of the first j entries of row i of ham
RECURSIVE RowSum(_, _)
RowSum(i, j) == IF j = 0 THEN 0 ELSE ham.m[<<i, j>>].re + RowSum(i, j - 1)

\* the matrix extracted from the notebook's system as it is written (no
\* statement of the exercise applied)
Stencil21 == nb = "2.1" /\ ham.bound /\ edits = 0

\* C1: the Hamiltonian of notebook 2.1 is the 2D finite-difference stencil:
\* 4t on the diagonal, -t between nearest neighbours that are both sites of the
\* system, 0 elsewhere; a row sums to t*(4 - number of neighbours in the system)
C1_Stencil ==
    Stencil21 =>
        LET n == Len(sys.order)
        IN  /\ {sys.order[i] : i \in 1 .. n} = sys.sites
            /\ n = Cardinality(sys.sites)
            /\ DOMAIN ham.m = (1 .. n) \X (1 .. n)
            /\ \A i, j \in 1 .. n :
                 ham.m[<<i, j>>] =
                     IF i = j THEN Real(4 * t)
                     ELSE IF NearestNeighbours(sys.order[i], sys.order[j]) THEN Real(0 - t)
                     ELSE Real(0)
            /\ \A i \in 1 .. n :
                 RowSum(i, n) =
                     t * (4 - Cardinality({q \in sys.sites :
                                              NearestNeighbours(sys.order[i], q)}))

\* a system with an inner site (row sum 0) and a site on the rim
C1_Witness ==
    /\ Stencil21 /\ r = 2
    /\ \E i \in 1 .. Len(sys.order) : RowSum(i, Len(sys.order)) = 0
    /\ \E i \in 1 .. Len(sys.order) : RowSum(i, Len(sys.order)) = 2 * t

\* a wrapped system's matrix is Hermitian at every momentum when the
\* coefficient of exp(i k.d) in <x|H|y> is the conjugate of that of
\* exp(-i k.d) in <y|H|x>
Hermitian(h) ==
    \A xy \in DOMAIN h.coef : \A d \in Window :
        h.coef[xy][d] = conj(h.coef[<<xy[2], xy[1]>>][Neg(d)])

\* C2: every matrix handed to the dense eigensolver is Hermitian: ham in
\* notebook 2.1, and every h of dispersion_2D (graphene, Haldane, Kane-Mele)
\* for every slider value and momentum
C2_Hermitian ==
    /\ ham.bound =>
         \A ij \in DOMAIN ham.m : ham.m[ij] = conj(ham.m[<<ij[2], ij[1]>>])
    /\ (frame.active /\ frame.calls > 0) => Hermitian(frame.h)

\* a Kane-Mele matrix with a spin-orbit term and a negative mass has been
\* handed to eigvalsh
C2_Witness ==
    /\ frame.active /\ frame.calls > 0
    /\ Cardinality(DOMAIN frame.h.coef) = 16
    /\ \E xy \in DOMAIN frame.h.coef : \E d \in Window : frame.h.coef[xy][d].im > 0
    /\ frame.args[1].m < 0

\* the shape of a system: its sites, its hoppings, the order of the sites
ShapeOf(s) == [sites |-> s.sites,
               hoppings |-> DOMAIN s.hop,
               order |-> IF s.kind = "finalized" THEN s.order ELSE <<>>]

ResultPlots == {"map", "plot_surface"}

Evaluated ==
    (IF frame.active /\ frame.calls > 0
     THEN {[syst |-> frame.syst, args |-> frame.h.args]} ELSE {})
    \cup
    (IF nb = "3.4" /\ shown.fn = "bands" /\ shown.args # <<>>
     THEN {[syst |-> ribbon_finalized(env.zigzag_kane_mele), args |-> shown.args]}
     ELSE {})

\* the 2x2 array diag(up, down)
Diag(up, down) == <<<<up, Real(0)>>, <<Real(0), down>>>>

\* C6: the Haldane onsite is +m on sublattice a and -m on b, the Kane-Mele
\* onsite the 2x2 identity times that, whatever the position of the site;
\* nnn_hopping is 1j*t_2 and spin_orbit 1j*t_2*sz whatever the two sites
C6_Callables ==
    \A e \in Evaluated :
        LET p == e.args[1]
            mass(s) == IF s.fam = "a" THEN p.m ELSE 0 - p.m
        IN  /\ \A s \in e.syst.sites :
                 LET v == OnsiteValue(e.syst.onsiteV[s], s, e.args)
                 IN  /\ e.syst.onsiteV[s] = Callable("onsite_haldane")
                            => v = Scalar(Real(mass(s)))
                     /\ e.syst.onsiteV[s] = Callable("onsite_kane_mele")
                            => v = Matrix(Diag(Real(mass(s)), Real(mass(s))))
            /\ \A h \in DOMAIN e.syst.hop :
                 LET v == HoppingValue(e.syst.hop[h], h[1], h[2], e.args)
                 IN  /\ e.syst.hop[h] = Callable("nnn_hopping")
                            => v = Scalar(Cplx(0, p.t_2))
                     /\ e.syst.hop[h] = Callable("spin_orbit")
                            => v = Matrix(Diag(Cplx(0, p.t_2), Cplx(0, 0 - p.t_2)))

\* the Kane-Mele ribbon, with its sites at many positions, is drawn for a
\* nonzero t_2 and a negative m
C6_Witness ==
    /\ nb = "3.4" /\ shown.fn = "bands" /\ shown.args # <<>>
    /\ shown.args[1].t_2 > 0 /\ shown.args[1].m < 0
    /\ Cardinality(env.zigzag_kane_mele.sites) > 2
    /\ \E h \in DOMAIN env.zigzag_kane_mele.hop :
         env.zigzag_kane_mele.hop[h] = Callable("spin_orbit")

\* C7: the slider of interact(plot_wf, i=(0, 30)) offers exactly the 30
\* indices 0..29 of the 30 lowest eigenvalues
C7_FirstThirty ==
    \A w \in widgets : w.fn = "plot_wf" => w.values = 0 .. 29

\* the Haldane model on the sites of a Kane-Mele system
HaldaneOn(b) ==
    add_hoppings_haldane(
        SymSetSites(SymBuilder(b.sym), b.sites, Callable("onsite_haldane")))

\* a Kane-Mele system is being evaluated
KaneMele(e) == \E s \in e.syst.sites : e.syst.onsiteV[s] = Callable("onsite_kane_mele")

\* C8: every Kane-Mele onsite and hopping value is diagonal in spin; its
\* spin-up entry is the Haldane value of the same site or hopping at (t_2, m),
\* its spin-down entry the Haldane value at (-t_2, m)
C8_TwoCopies ==
    \A e \in {x \in Evaluated : KaneMele(x)} :
        LET p    == e.args[1]
            up   == <<SimpleNamespace(p.t_2, p.m)>>
            down == <<SimpleNamespace(0 - p.t_2, p.m)>>
            hal  == HaldaneOn(e.syst)
        IN  /\ DOMAIN hal.hop = DOMAIN e.syst.hop
            /\ \A s \in e.syst.sites :
                 LET v == AsMat(OnsiteValue(e.syst.onsiteV[s], s, e.args))
                 IN  /\ Len(v) = 2
                     /\ v[1][2] = Real(0) /\ v[2][1] = Real(0)
                     /\ v[1][1] = OnsiteValue(hal.onsiteV[s], s, up).z
                     /\ v[2][2] = OnsiteValue(hal.onsiteV[s], s, down).z
            /\ \A h \in DOMAIN e.syst.hop :
                 LET v == AsMat(HoppingValue(e.syst.hop[h], h[1], h[2], e.args))
                 IN  /\ Len(v) = 2
                     /\ v[1][2] = Real(0) /\ v[2][1] = Real(0)
                     /\ v[1][1] = HoppingValue(hal.hop[h], h[1], h[2], up).z
                     /\ v[2][2] = HoppingValue(hal.hop[h], h[1], h[2], down).z

\* a Kane-Mele system is evaluated with a nonzero t_2, where the two spins differ
C8_Witness ==
    \E e \in Evaluated : KaneMele(e) /\ e.args[1].t_2 > 0 /\ e.args[1].m > 0

\* C9: every point of the plotted surfaces is at its own momentum: the
\* energies drawn at (kx[i][j], ky[i][j]) are eigenvalues of the matrix that
\* was evaluated at that momentum
C9_OwnMomentum ==
    shown.fn = "dispersion_2D" =>
        \A i \in 1 .. Len(shown.energies) : \A j \in 1 .. Len(shown.energies[i]) :
            \A band \in 1 .. Len(shown.energies[i][j]) :
                shown.energies[i][j][band].k =
                    momentum_to_lattice(<<shown.kx[i][j], shown.ky[i][j]>>)

\* what the caller of the running dispersion_2D passed, as a list
Passed0 == IF frame.passed0.none THEN <<>> ELSE frame.passed0.list

\* C10: the list handed to hamiltonian_submatrix is the caller's args in
\* their order followed by the two lattice momenta (len(args) + 2 entries);
\* args=None is the empty list; the caller's list is not modified
C10_Args ==
    (frame.active /\ frame.calls > 0) =>
        /\ Len(frame.call) = Len(Passed0) + 2
        /\ SubSeq(frame.call, 1, Len(Passed0)) = Passed0
        /\ SubSeq(frame.call, Len(Passed0) + 1, Len(frame.call))
              = momentum_to_lattice(frame.at)
        /\ frame.passed = frame.passed0

\* the second grid point of a call that was given a list of args
C10_Witness ==
    /\ frame.active /\ frame.calls = 2 /\ ~frame.passed0.none
    /\ Len(frame.call) = 3

\* all integer lattice points strictly inside the circle of radius rr; a point
\* outside the square -rr..rr has x*x >= rr*rr or y*y >= rr*rr
OpenDisc(rr) ==
    {p \in (0 - rr .. rr) \X (0 - rr .. rr) : p[1] * p[1] + p[2] * p[2] < rr * rr}

\* the region as sys[lat.shape(circle, (0, 0))] left it: no statement of the
\* exercise has changed the Builder
RegionAsBuilt == nb = "2.1" /\ pc >= 5 /\ edits = 0

\* C11: the sites added by sys[lat.shape(circle, (0, 0))] are exactly the
\* integer points with x**2 + y**2 < r**2: the start site (0, 0) is one of
\* them, no point with x**2 + y**2 >= r**2 (such as (r, 0)) is, and the fill
\* from (0, 0) leaves out no point of the disc
C11_OpenDisc ==
    RegionAsBuilt =>
        /\ sys.sites = OpenDisc(r)
        /\ <<0, 0>> \in sys.sites
        /\ <<r, 0>> \notin sys.sites
        /\ \A p \in sys.sites : p[1] * p[1] + p[2] * p[2] < r * r

\* the region of radius 3 just built: (2, 2) is two steps off both axes and
\* inside, (3, 0) and (2, 3) are not
C11_Witness ==
    /\ RegionAsBuilt /\ pc = 5 /\ r = 3
    /\ <<2, 2>> \in sys.sites
    /\ <<3, 0>> \notin sys.sites /\ <<2, 3>> \notin sys.sites
    /\ Cardinality(sys.sites) = 25

====
